---- MODULE Spec2Model ----
(***************************************************************************)
(* marblejoiner: a chat watcher that posts "!play" to a channel once       *)
(* enough of the last buffer_size messages of that channel start with      *)
(* "!play", at most once per delay, after waiting `wait` seconds.          *)
(*                                                                         *)
(* The model follows src/src/main.rs: the receive loop of main, the free   *)
(* function process_message (the dispatcher) and impl ChannelMarbleState   *)
(* (the per-channel detector).  Time is the monotonic clock read by        *)
(* Instant::now(); an integer of the model is an instant, and two equal    *)
(* integers are the same instant.                                          *)
(***************************************************************************)
EXTENDS Integers, Sequences, FiniteSets, TLC

(* ------------------------------ bounds --------------------------------- *)

\* largest --buffer-size the checked configurations use
MaxBuffer == 2
\* largest --delay (cooldown); seconds
MaxDelay == 2
\* largest --wait (grace delay); seconds
MaxWait == 1
\* last instant of the clock
MaxTime == 4
\* most messages waiting in the incoming_messages channel
MaxQueue == 1
\* most time that passes between the clock read of is_time_to_play (line 199)
\* and the clock read that stamps next_play (line 189)
MaxDrift == 1
\* the reference scenario: the latest instant its first message is fed at
ScenarioStart == 2
\* the reference scenario: most messages waiting in incoming_messages
ScenarioQueue == 5

(* ----------------------- defaults of the Cli --------------------------- *)

DefaultBufferSize == 10
DefaultTreshhold == 5
DefaultDelay == 120
DefaultWait == 5

(* ------------------------------ values --------------------------------- *)

NoChannel == "-"
NoTime == -1

\* the channel logins a message can carry
Logins == {"a", "b"}

\* the prefix of line 187
PlayPrefix == <<"!", "p", "l", "a", "y">>

\* message texts: one that starts with the prefix, and one that holds the
\* prefix but not at the start
Texts ==
  { <<"!", "p", "l", "a", "y", " ", "x">>,
    <<"x", "!", "p", "l", "a", "y">> }

\* str::starts_with
starts_with(text, prefix) ==
  /\ Len(text) >= Len(prefix)
  /\ SubSeq(text, 1, Len(prefix)) = prefix

\* ServerMessage: a Privmsg of a channel, or any other variant
Privmsg(channel_login, message_text) ==
  [kind |-> "Privmsg", channel_login |-> channel_login, message_text |-> message_text]

OtherMessage ==
  [kind |-> "Other", channel_login |-> NoChannel, message_text |-> <<>>]

ServerMessage ==
  {Privmsg(c, t) : c \in Logins, t \in Texts} \cup {OtherMessage}

(* ------------------------------- state --------------------------------- *)

VARIABLES
  app_params,         \* AppParams: buffer_size, treshhold, delay, wait
  marble_states,      \* HashMap<String, ChannelMarbleState>
  incoming_messages,  \* the receiver's queue of ServerMessage
  clock,              \* the instant Instant::now() returns
  task,               \* the spawned task: where it is, and the pending say
  last,               \* what the latest step of the task did
  recent,             \* per channel: predicate results since the last clear
  last_fire,          \* per channel: the instant of the latest fire
  last_say,           \* per channel: the instant of the latest say
  feed                \* the scripted message source: its script, how much was fed

vars ==
  <<app_params, marble_states, incoming_messages, clock, task, last, recent,
    last_fire, last_say, feed>>

\* ChannelMarbleState::new
new(login, buffer_size, now) ==
  [login |-> login,
   buffer |-> [i \in 0 .. buffer_size - 1 |-> FALSE],
   current_position |-> 0,
   next_play |-> now]

\* a step of the task that observed nothing
NoStep ==
  [kind |-> "none", channel |-> NoChannel, matched |-> FALSE, decision |-> "none",
   at |-> NoTime, match_count |-> 0, ref_count |-> 0, prev_fire |-> NoTime,
   ok |-> TRUE]

\* the message source follows no script
NoFeed == [name |-> "none", fed |-> 0]

\* the task waits in recv(); a sleeping task also carries the channel it is to
\* say to, the instant its sleep ends and the stamp of that channel's fire
\* before this one
Receiving ==
  [pc |-> "recv", channel |-> NoChannel, wake_at |-> NoTime, prev_fire |-> NoTime]

\* the number of true entries (the filter().count() of line 203)
match_count(buffer) == Cardinality({i \in DOMAIN buffer : buffer[i]})

CountTrue(s) == Cardinality({i \in 1 .. Len(s) : s[i]})

\* the state when the receive loop starts: every channel was created at
\* instant 0 and the connection was set up after it
InitWith(channels, buffer_size, treshhold, delay, wait) ==
  /\ app_params =
       [buffer_size |-> buffer_size, treshhold |-> treshhold,
        delay |-> delay, wait |-> wait]
  /\ marble_states = [c \in channels |-> new(c, buffer_size, 0)]
  /\ incoming_messages = <<>>
  /\ clock = 1
  /\ task = Receiving
  /\ last = NoStep
  /\ recent = [c \in channels |-> <<>>]
  /\ last_fire = [c \in channels |-> NoTime]
  /\ last_say = [c \in channels |-> NoTime]

\* clap takes any usize for --buffer-size and --treshhold, any u64 for --delay
\* and --wait, and any list of channels, the empty one included (lines 19-79)
InitOf(channel_lists) ==
  \E channels \in channel_lists,
     buffer_size \in 0 .. MaxBuffer,
     treshhold \in 0 .. MaxBuffer + 1,
     delay \in 0 .. MaxDelay,
     wait \in 0 .. MaxWait :
    /\ InitWith(channels, buffer_size, treshhold, delay, wait)
    /\ feed = NoFeed

\* no channel or one channel watched; "b" is then a channel outside the map
Init == InitOf({{}, {"a"}})

\* up to two channels watched
InitShared == InitOf({{}, {"a"}, {"a", "b"}})

(* --------------------------- the detector ------------------------------ *)

\* mutants of is_time_to_play: no cooldown test; a test that lets the
\* instant next_play itself through
is_time_to_play_always(self, now) == TRUE

is_time_to_play_inclusive(self, now) == self.next_play <= now

\* ChannelMarbleState::is_time_to_play
is_time_to_play(self, now) == self.next_play < now

\* mutant of is_treshhold_reached: > in place of >=
is_treshhold_reached_strict(self, params) == match_count(self.buffer) > params.treshhold

\* ChannelMarbleState::is_treshhold_reached
is_treshhold_reached(self, params) == match_count(self.buffer) >= params.treshhold

\* mutant of clear_buffer: the buffer is left as it is
clear_buffer_forgotten(self) == self

\* ChannelMarbleState::clear_buffer
clear_buffer(self) == [self EXCEPT !.buffer = [i \in DOMAIN self.buffer |-> FALSE]]

\* mutant of next_position: the cursor does not advance
next_position_stuck(self, params) == self.current_position % params.buffer_size

\* line 186
next_position(self, params) == (self.current_position + 1) % params.buffer_size

\* mutant of write_message: the negated predicate result is written
write_message_negated(self, params, message) ==
  LET position == next_position(self, params) IN
  [self EXCEPT !.current_position = position,
               !.buffer = [self.buffer EXCEPT ![position] = ~starts_with(message, PlayPrefix)]]

\* lines 186-187: the cursor advances, the predicate result is written there
write_message(self, params, message) ==
  LET position == next_position(self, params) IN
  [self EXCEPT !.current_position = position,
               !.buffer = [self.buffer EXCEPT ![position] = starts_with(message, PlayPrefix)]]

\* mutant of should_play: || in place of &&
should_play_either(self, params, now) ==
  is_time_to_play(self, now) \/ is_treshhold_reached(self, params)

\* line 188
should_play(self, params, now) ==
  is_time_to_play(self, now) /\ is_treshhold_reached(self, params)

\* mutants of stamp_next_play: the wait is added in place of the delay; the
\* delay is subtracted
stamp_next_play_wait(self, params, now) == [self EXCEPT !.next_play = now + params.wait]

stamp_next_play_before(self, params, now) == [self EXCEPT !.next_play = now - params.delay]

\* line 189
stamp_next_play(self, params, now) == [self EXCEPT !.next_play = now + params.delay]

\* the predicate results since the last clear, the latest buffer_size of them
remember(seen, matched, buffer_size) ==
  LET all == Append(seen, matched) IN
  IF Len(all) > buffer_size THEN Tail(all) ELSE all

\* mutant of update: one state shared by every channel
update_shared(states, channel, state) ==
  [c \in DOMAIN states |-> [state EXCEPT !.login = c]]

\* lines 158-161: the entry get_mut() returns is the one that changes
update(states, channel, state) == [states EXCEPT ![channel] = state]

(* ------------------------ the task of main ----------------------------- *)

\* the message source hands a message to the receiver (the sender half of
\* incoming_messages); it does so whatever the task is doing
\* (`feed` is left to the source that calls it)
Arrive(message, capacity) ==
  /\ task.pc # "panicked"
  /\ Len(incoming_messages) < capacity
  /\ incoming_messages' = Append(incoming_messages, message)
  /\ last' = NoStep
  /\ UNCHANGED <<app_params, marble_states, clock, task, recent, last_fire, last_say>>

\* time passes
Tick(horizon) ==
  /\ task.pc # "panicked"
  /\ clock < horizon
  /\ clock' = clock + 1
  /\ last' = NoStep
  /\ UNCHANGED <<feed, app_params, marble_states, incoming_messages, task, recent,
                 last_fire, last_say>>

\* line 138: recv() hands the loop a message only while the task is in the loop
Received ==
  /\ task.pc = "recv"
  /\ incoming_messages # <<>>

\* lines 156, 164: a message that is no Privmsg
process_other ==
  /\ Received
  /\ Head(incoming_messages).kind # "Privmsg"
  /\ incoming_messages' = Tail(incoming_messages)
  /\ last' = [NoStep EXCEPT !.kind = "other"]
  /\ UNCHANGED <<feed, app_params, marble_states, clock, task, recent, last_fire, last_say>>

\* lines 158-160: get_mut() of a channel that is not in the map is None, and
\* unwrap() panics; the task ends and main's join_handle.await.unwrap() panics
process_unwatched ==
  /\ Received
  /\ Head(incoming_messages).kind = "Privmsg"
  /\ Head(incoming_messages).channel_login \notin DOMAIN marble_states
  /\ incoming_messages' = Tail(incoming_messages)
  /\ task' = [Receiving EXCEPT !.pc = "panicked"]
  /\ last' = [NoStep EXCEPT !.kind = "unwatched",
                           !.channel = Head(incoming_messages).channel_login]
  /\ UNCHANGED <<feed, app_params, marble_states, clock, recent, last_fire, last_say>>

\* line 186: with buffer_size = 0 the remainder panics
process_zero_buffer ==
  /\ Received
  /\ Head(incoming_messages).kind = "Privmsg"
  /\ Head(incoming_messages).channel_login \in DOMAIN marble_states
  /\ app_params.buffer_size = 0
  /\ incoming_messages' = Tail(incoming_messages)
  /\ task' = [Receiving EXCEPT !.pc = "panicked"]
  /\ last' = [NoStep EXCEPT !.kind = "zero_buffer",
                           !.channel = Head(incoming_messages).channel_login]
  /\ UNCHANGED <<feed, app_params, marble_states, clock, recent, last_fire, last_say>>

\* a Privmsg of a watched channel reaches ChannelMarbleState::process_message
Observing ==
  /\ Received
  /\ Head(incoming_messages).kind = "Privmsg"
  /\ Head(incoming_messages).channel_login \in DOMAIN marble_states
  /\ app_params.buffer_size > 0

\* what `last` records of an observation of `text` on `channel`
Observation(channel, text, written, decision) ==
  [kind |-> "observe", channel |-> channel,
   matched |-> starts_with(text, PlayPrefix), decision |-> decision,
   at |-> clock, match_count |-> match_count(written.buffer),
   ref_count |-> CountTrue(remember(recent[channel], starts_with(text, PlayPrefix),
                                    app_params.buffer_size)),
   prev_fire |-> last_fire[channel], ok |-> TRUE]

\* lines 186-188, 195: the message is written and the condition of line 188 is false
process_message_quiet ==
  /\ Observing
  /\ LET channel == Head(incoming_messages).channel_login
         text == Head(incoming_messages).message_text
         written == write_message(marble_states[channel], app_params, text)
     IN /\ ~should_play(written, app_params, clock)
        /\ marble_states' = update(marble_states, channel, written)
        /\ recent' = [recent EXCEPT ![channel] =
                        remember(@, starts_with(text, PlayPrefix), app_params.buffer_size)]
        /\ last' = Observation(channel, text, written, "NoFire")
  /\ incoming_messages' = Tail(incoming_messages)
  /\ UNCHANGED <<feed, app_params, clock, task, last_fire, last_say>>

\* lines 186-191: the condition of line 188 is true; next_play is stamped with
\* a second reading of the clock, the buffer is cleared and the thread sleeps
process_message_play(horizon) ==
  /\ Observing
  /\ LET channel == Head(incoming_messages).channel_login
         text == Head(incoming_messages).message_text
         written == write_message(marble_states[channel], app_params, text)
     IN /\ should_play(written, app_params, clock)
        /\ \E now \in clock .. clock + MaxDrift :
             /\ now <= horizon
             /\ clock' = now
             /\ marble_states' =
                  update(marble_states, channel,
                         clear_buffer(stamp_next_play(written, app_params, now)))
             /\ last_fire' = [last_fire EXCEPT ![channel] = now]
             /\ task' = [pc |-> "sleeping", channel |-> channel,
                         wake_at |-> now + app_params.wait,
                         prev_fire |-> last_fire[channel]]
        /\ recent' = [recent EXCEPT ![channel] = <<>>]
        /\ last' = Observation(channel, text, written, "Fire")
  /\ incoming_messages' = Tail(incoming_messages)
  /\ UNCHANGED <<feed, app_params, last_say>>

\* mutant of slept: the sleep is left out
slept_at_once(sleeper, now) == TRUE

\* line 191: thread::sleep returns when the wait has passed, or later
slept(sleeper, now) == now >= sleeper.wake_at

\* mutants of resume: a failed say is called again; a failed say is unwrapped
\* and ends the task
resume_retry(sleeper, ok) == IF ok THEN Receiving ELSE sleeper

resume_fatal(sleeper, ok) == IF ok THEN Receiving ELSE [Receiving EXCEPT !.pc = "panicked"]

\* lines 192, 195, 141: whatever say returned, process_message returns, its
\* result is dropped by `let _ =` and the loop is back in recv()
resume(sleeper, ok) == Receiving

\* lines 191-192, 141: thread::sleep has returned, client.say is called with
\* self.login; its result is dropped by `let _ =` and the loop goes on
say ==
  /\ task.pc = "sleeping"
  /\ slept(task, clock)
  /\ \E ok \in BOOLEAN :
       /\ last' = [NoStep EXCEPT !.kind = "say",
                                 !.channel = marble_states[task.channel].login,
                                 !.prev_fire = task.prev_fire,
                                 !.ok = ok]
       /\ task' = resume(task, ok)
  /\ last_say' = [last_say EXCEPT ![task.channel] = clock]
  /\ UNCHANGED <<feed, app_params, marble_states, incoming_messages, clock, recent, last_fire>>

\* the chat server sends any message at any time
source ==
  /\ \E message \in ServerMessage : Arrive(message, MaxQueue)
  /\ UNCHANGED feed

Next ==
  \/ source
  \/ Tick(MaxTime)
  \/ process_other
  \/ process_unwatched
  \/ process_zero_buffer
  \/ process_message_quiet
  \/ process_message_play(MaxTime)
  \/ say

Spec == Init /\ [][Next]_vars

SpecShared == InitShared /\ [][Next]_vars

(* ----------------------- the reference scenario ------------------------ *)

\* a message of channel "a" that matches, and one that does not
Matching == Privmsg("a", <<"!", "p", "l", "a", "y", " ", "x">>)

NonMatching == Privmsg("a", <<"x", "!", "p", "l", "a", "y">>)

\* n messages `message`, fed in `phase`: 1 at the start, 2 one second after
\* the first fire (t + 1), 3 from cooldown + 1 seconds after it (t + 121)
Fed(n, message, phase) == [i \in 1 .. n |-> [message |-> message, phase |-> phase]]

\* "claimed": 4 matching, 6 non-matching, 1 matching; then 5 and 5 matching
\* "amended": 4 matching, 5 non-matching, 1 matching; then 5 and 5 matching
Script(name) ==
  Fed(4, Matching, 1)
    \o Fed(IF name = "claimed" THEN 6 ELSE 5, NonMatching, 1)
    \o Fed(1, Matching, 1)
    \o Fed(5, Matching, 2)
    \o Fed(5, Matching, 3)

\* the last instant the scenario needs: both fires, stamped late, and both says
ScenarioEnd == ScenarioStart + 2 * MaxDrift + DefaultDelay + 1 + DefaultWait

InitScenario ==
  /\ InitWith({"a"}, DefaultBufferSize, DefaultTreshhold, DefaultDelay, DefaultWait)
  /\ \E name \in {"claimed", "amended"} : feed = [name |-> name, fed |-> 0]

FeedLeft == feed.fed < Len(Script(feed.name))

NextPhase == Script(feed.name)[feed.fed + 1].phase

\* the next message of the script is to be fed now
FeedDue ==
  /\ FeedLeft
  /\ \/ NextPhase = 1
     \/ /\ NextPhase = 2
        /\ last_fire["a"] # NoTime
        /\ clock = last_fire["a"] + 1
     \/ /\ NextPhase = 3
        /\ last_fire["a"] # NoTime
        /\ \/ clock >= last_fire["a"] + DefaultDelay + 1
           \/ Script(feed.name)[feed.fed].phase = 3

\* the scripted source feeds its next message
feed_next ==
  /\ FeedDue
  /\ Arrive(Script(feed.name)[feed.fed + 1].message, ScenarioQueue)
  /\ feed' = [feed EXCEPT !.fed = @ + 1]

\* time passes in the scenario only when nothing is to be done at this
\* instant: the loop takes a waiting message at once, a sleep ends on time,
\* and the messages of phases 2 and 3 are fed at their instants
scenario_tick ==
  /\ ~(task.pc = "recv" /\ incoming_messages # <<>>)
  /\ ~(task.pc = "sleeping" /\ clock >= task.wake_at)
  /\ FeedLeft => IF NextPhase = 1 THEN clock < ScenarioStart ELSE ~FeedDue
  /\ Tick(ScenarioEnd)

NextScenario ==
  \/ feed_next
  \/ scenario_tick
  \/ process_message_quiet
  \/ process_message_play(ScenarioEnd)
  \/ say

SpecScenario == InitScenario /\ [][NextScenario]_vars

(* ------------------------------ claims --------------------------------- *)

\* the latest step was an observation of a message by a channel's detector
Observed == last.kind = "observe"

Fired == Observed /\ last.decision = "Fire"

\* C1: a Fire of a channel that has fired before, at instant T, is decided at
\* an instant that is not before T + delay
CooldownEnforced ==
  (Fired /\ last.prev_fire # NoTime) => last.at >= last.prev_fire + app_params.delay

\* C1 witness: a second Fire of a channel under a positive delay that the
\* messages have to reach a positive treshhold for
CooldownWitness ==
  /\ Fired
  /\ last.prev_fire # NoTime
  /\ app_params.delay > 0
  /\ app_params.treshhold > 0

\* C2 as claimed: an observation decides Fire exactly when NOT now < next_play
\* and the count after the write reaches the treshhold
FireRuleClaimed ==
  [][last'.kind = "observe" =>
       (last'.decision = "Fire" <=>
          /\ ~(clock < marble_states[last'.channel].next_play)
          /\ last'.match_count >= app_params.treshhold)]_vars

\* C2 as amended: an observation decides Fire exactly when next_play < now
\* and the count after the write reaches the treshhold, and NoFire otherwise
FireRule ==
  [][last'.kind = "observe" =>
       /\ last'.decision \in {"Fire", "NoFire"}
       /\ last'.decision = "Fire" <=>
            /\ marble_states[last'.channel].next_play < clock
            /\ last'.match_count >= app_params.treshhold]_vars

\* C2 witness: an observation at the instant next_play itself, with the
\* treshhold reached, that decided NoFire
FireRuleWitness ==
  /\ Observed
  /\ last.decision = "NoFire"
  /\ last.at = marble_states[last.channel].next_play
  /\ last.match_count >= app_params.treshhold
  /\ last.prev_fire # NoTime

\* C3: right after a Fire every entry of the channel's buffer is false and
\* next_play is the instant the fire was stamped at plus the delay
ResetOnFire ==
  Fired =>
    LET self == marble_states[last.channel] IN
    /\ \A i \in DOMAIN self.buffer : ~self.buffer[i]
    /\ match_count(self.buffer) = 0
    /\ self.next_play = clock + app_params.delay
    /\ last_fire[last.channel] = clock

\* C3 witness: a Fire decided on a full count, under a delay that differs
\* from the wait
ResetOnFireWitness ==
  /\ Fired
  /\ last.match_count = app_params.buffer_size
  /\ app_params.buffer_size = MaxBuffer
  /\ app_params.delay > app_params.wait

\* C4: the count an observation evaluates is the number of matching messages
\* among the last min(buffer_size, k) observed since the last clear, and is
\* at most buffer_size
MatchCountReference ==
  Observed =>
    /\ last.match_count = last.ref_count
    /\ last.match_count <= app_params.buffer_size

\* C4 witness: an observation after a clear, during the cooldown, that finds
\* the whole buffer matching
MatchCountWitness ==
  /\ Observed
  /\ last.prev_fire # NoTime
  /\ last.decision = "NoFire"
  /\ last.match_count = MaxBuffer
  /\ app_params.treshhold > 0

\* C5: on a channel that has not fired, once buffer_size messages or more
\* were observed, the buffer read backwards from the cursor is the predicate
\* results of the last buffer_size observations, latest first
Wraparound ==
  \A c \in DOMAIN marble_states :
    LET self == marble_states[c]
        size == app_params.buffer_size
    IN (last_fire[c] = NoTime /\ size >= 1 /\ Len(recent[c]) = size) =>
         \A j \in 0 .. size - 1 :
           self.buffer[(self.current_position + size - j) % size] = recent[c][size - j]

\* C5 witness: more than buffer_size observations without a Fire (the cursor
\* is back at 1), the last buffer_size of them with different results
WraparoundWitness ==
  /\ "a" \in DOMAIN marble_states
  /\ last_fire["a"] = NoTime
  /\ app_params.buffer_size = MaxBuffer
  /\ Len(recent["a"]) = MaxBuffer
  /\ marble_states["a"].current_position = 1
  /\ recent["a"][MaxBuffer]
  /\ ~recent["a"][1]

\* what the observation of a step left of the buffer: every entry but the
\* one at the new cursor
OthersKept(before, after) ==
  \A i \in DOMAIN before.buffer :
    i # after.current_position => after.buffer[i] = before.buffer[i]

\* C6 as claimed: an observation of a message that does not match never
\* changes next_play and never clears the buffer
NonMatchingKeepsClaimed ==
  [][(last'.kind = "observe" /\ ~last'.matched) =>
       /\ marble_states'[last'.channel].next_play = marble_states[last'.channel].next_play
       /\ OthersKept(marble_states[last'.channel], marble_states'[last'.channel])]_vars

\* C6 as amended: it does neither while the cooldown is on (NOT next_play <
\* now) or the count after the write is below the treshhold
NonMatchingKeeps ==
  [][(/\ last'.kind = "observe"
      /\ ~last'.matched
      /\ \/ ~(marble_states[last'.channel].next_play < clock)
         \/ last'.match_count < app_params.treshhold) =>
       /\ marble_states'[last'.channel].next_play = marble_states[last'.channel].next_play
       /\ OthersKept(marble_states[last'.channel], marble_states'[last'.channel])]_vars

\* C6 witness: a message that does not match was observed during the
\* cooldown while the buffer held matches that reach the treshhold
NonMatchingKeepsWitness ==
  /\ Observed
  /\ ~last.matched
  /\ last.decision = "NoFire"
  /\ last.match_count >= 1
  /\ last.match_count >= app_params.treshhold
  /\ match_count(marble_states[last.channel].buffer) = last.match_count

\* C7: the observation of a message of one channel leaves the state of every
\* other channel as it was
CrossChannelIndependence ==
  [][\A b \in DOMAIN marble_states :
       (last'.kind = "observe" /\ last'.channel # b) =>
         marble_states'[b] = marble_states[b]]_vars

\* C7 witness: "a" fired while "b" held a match and a cooldown of its own
CrossChannelWitness ==
  /\ Fired
  /\ last.channel = "a"
  /\ "b" \in DOMAIN marble_states
  /\ match_count(marble_states["b"].buffer) >= 1
  /\ last_fire["b"] # NoTime
  /\ marble_states["b"].next_play # marble_states["a"].next_play

\* C8: while the task waits out the grace delay of one channel (its wake
\* instant is still ahead), a message of another watched channel at the head
\* of the queue can be observed
GraceDelayIsolation ==
  (/\ task.pc = "sleeping"
   /\ clock < task.wake_at
   /\ incoming_messages # <<>>
   /\ Head(incoming_messages).kind = "Privmsg"
   /\ Head(incoming_messages).channel_login \in DOMAIN marble_states
   /\ Head(incoming_messages).channel_login # task.channel
   /\ app_params.buffer_size > 0) =>
    ENABLED (process_message_quiet \/ process_message_play(MaxTime))

\* C9: a Privmsg of a channel outside the map leaves the task in its loop
UnknownChannelIgnored == last.kind = "unwatched" => task.pc = "recv"

\* the place in the script of the message the latest observation took
ScriptPosition == feed.fed - Len(incoming_messages)

\* every entry of the buffer of "a" is false and next_play is the stamp of
\* the fire plus the default delay
ScenarioReset ==
  /\ \A i \in DOMAIN marble_states["a"].buffer : ~marble_states["a"].buffer[i]
  /\ marble_states["a"].next_play = last_fire["a"] + DefaultDelay

\* C10 as claimed: 4 matching then 6 non-matching messages yield no Fire, the
\* 11th message (matching) yields Fire with the history cleared and the send
\* 5 s later, the 5 matching messages of t + 1 yield NoFire and those of
\* t + 121 a Fire again
ScenarioClaimed ==
  feed.name = "claimed" =>
    /\ (Observed /\ ScriptPosition <= 10) => last.decision = "NoFire"
    /\ (Observed /\ ScriptPosition = 11) => (last.decision = "Fire" /\ ScenarioReset)
    /\ (Observed /\ ScriptPosition \in 12 .. 16) => last.decision = "NoFire"
    /\ (Observed /\ ScriptPosition = 21) => last_fire["a"] > DefaultDelay
    /\ last.kind = "say" => clock >= last_fire["a"] + DefaultWait

\* C10 as amended: 4 matching then 5 non-matching messages yield no Fire, the
\* 10th message (matching) yields Fire with the history cleared and the send
\* 5 s later; the 5 matching messages of t + 1 yield NoFire; of those of
\* t + 121 the first yields Fire and the others NoFire
Scenario ==
  feed.name = "amended" =>
    /\ (Observed /\ ScriptPosition <= 9) => last.decision = "NoFire"
    /\ (Observed /\ ScriptPosition = 10) => (last.decision = "Fire" /\ ScenarioReset)
    /\ (Observed /\ ScriptPosition \in 11 .. 15) =>
         (last.decision = "NoFire" /\ last.at >= last_fire["a"] + DefaultWait)
    /\ (Observed /\ ScriptPosition = 16) =>
         (last.decision = "Fire" /\ ScenarioReset /\ last.prev_fire # NoTime)
    /\ (Observed /\ ScriptPosition \in 17 .. 20) => last.decision = "NoFire"
    /\ last.kind = "say" => clock = last_fire["a"] + DefaultWait

\* C10 witness: the amended script was observed to its last message, after
\* two fires
ScenarioWitness ==
  /\ feed.name = "amended"
  /\ Observed
  /\ ScriptPosition = 20
  /\ last.prev_fire > DefaultDelay
  /\ last_say["a"] = last.prev_fire + DefaultWait

\* C11 as claimed: with treshhold = 0, an observation made when NOT
\* now < next_play decides Fire, whatever the message
ZeroTreshholdClaimed ==
  [][(last'.kind = "observe" /\ app_params.treshhold = 0
        /\ ~(last'.at < marble_states[last'.channel].next_play))
      => last'.decision = "Fire"]_vars

\* C11 as amended: with treshhold = 0, an observation made when
\* next_play < now decides Fire, whatever the message, the first message of a
\* freshly created channel included
ZeroTreshhold ==
  [][(last'.kind = "observe" /\ app_params.treshhold = 0
        /\ marble_states[last'.channel].next_play < last'.at)
      => last'.decision = "Fire"]_vars

\* C11 witness: under treshhold = 0 the first message of a channel, which
\* does not start with the prefix, decided Fire
ZeroTreshholdWitness ==
  /\ Fired
  /\ app_params.treshhold = 0
  /\ ~last.matched
  /\ last.match_count = 0
  /\ last.prev_fire = NoTime

AllFalse(buffer) == \A i \in DOMAIN buffer : ~buffer[i]

\* C12: when say fails, the channel keeps the next_play stamped at its fire
\* (fire instant + delay) and its cleared buffer, and the task is back in
\* recv() with no say left to make for that fire
SendFailureKept ==
  (last.kind = "say" /\ ~last.ok) =>
    /\ marble_states[last.channel].next_play = last_fire[last.channel] + app_params.delay
    /\ AllFalse(marble_states[last.channel].buffer)
    /\ task.pc = "recv"
    /\ ~ENABLED say

\* C12 witness: a say has failed, for a fire stamped under a positive delay and
\* decided by matching messages
SendFailureWitness ==
  /\ last.kind = "say"
  /\ ~last.ok
  /\ app_params.delay > 0
  /\ app_params.treshhold > 0
  /\ marble_states[last.channel].next_play = last_fire[last.channel] + app_params.delay

\* the loop of a process that runs on: time passes and the sleeping thread
\* goes on to its say (time may pass until the longest sleep has ended)
NextLive ==
  \/ source
  \/ Tick(MaxTime + MaxWait)
  \/ process_other
  \/ process_unwatched
  \/ process_zero_buffer
  \/ process_message_quiet
  \/ process_message_play(MaxTime)
  \/ say

SpecLive ==
  /\ Init
  /\ [][NextLive]_vars
  /\ WF_vars(Tick(MaxTime + MaxWait))
  /\ WF_vars(say)

\* a Fire of channel C leaves exactly one say to make, to C; that say is
\* made no earlier than `wait` after the fire and leaves none to make; only a
\* say ends the sleep; a NoFire decision, a message that is no Privmsg and a
\* message of an unwatched channel leave no say to make
OneSayStep ==
  [][/\ last'.decision = "Fire" =>
          /\ task.pc = "recv"
          /\ task'.pc = "sleeping"
          /\ task'.channel = last'.channel
     /\ last'.kind = "say" =>
          /\ task.pc = "sleeping"
          /\ last'.channel = task.channel
          /\ clock' >= last_fire[task.channel] + app_params.wait
          /\ last_say'[task.channel] = clock'
          /\ task'.pc # "sleeping"
     /\ (task.pc = "sleeping" /\ task'.pc # "sleeping") => last'.kind = "say"
     /\ (last'.kind \in {"other", "unwatched", "zero_buffer"} \/ last'.decision = "NoFire") =>
          /\ task'.pc # "sleeping"
          /\ last_say' = last_say
     /\ last_say' # last_say => last'.kind = "say"]_vars

\* a sleeping task gets to its say
SayFollows == (task.pc = "sleeping") ~> (last.kind = "say")

\* C13: every Fire of channel C is followed by exactly one say, to C, made no
\* earlier than `wait` after the fire; a NoFire decision or an ignored message
\* makes no say
OneSayPerFire == OneSayStep /\ SayFollows

\* C13 witness: the say of a fire was made, after a positive wait
OneSayWitness ==
  /\ last.kind = "say"
  /\ app_params.wait > 0
  /\ task.pc = "recv"
  /\ last_say[last.channel] >= last_fire[last.channel] + app_params.wait

\* the configurations the specification has startup accept
ValidConfiguration ==
  /\ app_params.buffer_size >= 1
  /\ app_params.treshhold <= app_params.buffer_size
  /\ DOMAIN marble_states # {}

\* C14: the loop handles a message, and process_message is reached, only
\* under a configuration with treshhold <= buffer_size, buffer_size >= 1 and at
\* least one channel
ConfigurationRejected ==
  last.kind \in {"other", "unwatched", "zero_buffer", "observe", "say"} => ValidConfiguration

\* C15: next_play of a channel never decreases, and it changes only in a step
\* that decides Fire for that channel
MonotoneNextPlay ==
  [][\A c \in DOMAIN marble_states :
       /\ marble_states'[c].next_play >= marble_states[c].next_play
       /\ marble_states'[c].next_play # marble_states[c].next_play =>
            (last'.decision = "Fire" /\ last'.channel = c)]_vars

\* C15 witness: a second Fire of a channel has moved its next_play further on
MonotoneWitness ==
  /\ Fired
  /\ last.prev_fire # NoTime
  /\ marble_states[last.channel].next_play > last.prev_fire + app_params.delay

\* the buffer of channel c has buffer_size entries and the cursor is one of
\* its indices
Shaped(c) ==
  /\ DOMAIN marble_states[c].buffer = 0 .. app_params.buffer_size - 1
  /\ marble_states[c].current_position \in 0 .. app_params.buffer_size - 1

\* C16: in every reachable state every channel's buffer has buffer_size
\* entries and its cursor lies in 0 .. buffer_size - 1, at the slot the latest
\* observation wrote; no observation fails on an index
BufferShape ==
  /\ \A c \in DOMAIN marble_states : Shaped(c)
  /\ (Observed /\ last.decision = "NoFire") =>
       marble_states[last.channel].buffer[marble_states[last.channel].current_position]
         = last.matched
  /\ last.kind # "zero_buffer"

\* the same under the configurations that have at least one buffer slot
BufferShapeOfValid == app_params.buffer_size >= 1 => BufferShape

\* C17: an observation of channel c made while the cooldown is active (not
\* next_play < now) decides NoFire, moves the cursor on by one (mod
\* buffer_size), writes the predicate result at the new cursor and leaves
\* every other buffer entry and next_play as they were, so the buffer then
\* holds every match the last buffer_size observations since the clear made
EvidenceRetained ==
  [][(last'.kind = "observe" /\ ~(marble_states[last'.channel].next_play < last'.at)) =>
       LET before == marble_states[last'.channel]
           after == marble_states'[last'.channel]
       IN /\ last'.decision = "NoFire"
          /\ after.current_position = (before.current_position + 1) % app_params.buffer_size
          /\ after.buffer[after.current_position] = last'.matched
          /\ OthersKept(before, after)
          /\ after.next_play = before.next_play
          /\ match_count(after.buffer) = last'.ref_count]_vars

\* C17 witness: a matching message observed during the cooldown that follows a
\* fire was written, with enough matches in the buffer to reach the treshhold
EvidenceRetainedWitness ==
  /\ Observed
  /\ last.matched
  /\ last.decision = "NoFire"
  /\ last.prev_fire # NoTime
  /\ last.at <= marble_states[last.channel].next_play
  /\ app_params.treshhold > 0
  /\ match_count(marble_states[last.channel].buffer) >= app_params.treshhold

\* the task is in the wait between a Fire of channel c and its say
InGrace(c) == task.pc = "sleeping" /\ task.channel = c /\ clock < task.wake_at

\* C18: while a Fire of channel c waits for its say, a message of c that has
\* arrived is still observed (buffer and cursor change), no second Fire of c
\* is decided before the say, and at most one Fire is pending
PendingFire ==
  \A c \in DOMAIN marble_states :
    /\ (/\ InGrace(c)
        /\ incoming_messages # <<>>
        /\ Head(incoming_messages).kind = "Privmsg"
        /\ Head(incoming_messages).channel_login = c) =>
         ENABLED process_message_quiet
    /\ InGrace(c) => ~ENABLED process_message_play(MaxTime)
    /\ (Fired /\ last.channel = c /\ last.prev_fire # NoTime) =>
         (last_say[c] # NoTime /\ last_say[c] >= last.prev_fire + app_params.wait)

\* the part of it that is about a second Fire
NoSecondFire ==
  \A c \in DOMAIN marble_states :
    /\ InGrace(c) => ~ENABLED process_message_play(MaxTime)
    /\ (Fired /\ last.channel = c /\ last.prev_fire # NoTime) =>
         (last_say[c] # NoTime /\ last_say[c] >= last.prev_fire + app_params.wait)

LoopSurvives ==
  [][/\ (last'.kind = "say" /\ ~last'.ok) =>
          /\ task'.pc = "recv"
          /\ incoming_messages' # <<>> =>
               (ENABLED (process_other \/ process_unwatched \/ process_zero_buffer
                           \/ process_message_quiet \/ process_message_play(MaxTime)))'
     /\ last'.kind = "other" =>
          /\ marble_states' = marble_states
          /\ task' = task
          /\ task'.pc = "recv"
          /\ last_say' = last_say
          /\ last_fire' = last_fire]_vars

\* C20 witness: a say to one channel has failed and a Privmsg of another
\* watched channel waits for the loop, which is in recv()
LoopSurvivesWitness ==
  /\ last.kind = "say"
  /\ ~last.ok
  /\ task.pc = "recv"
  /\ incoming_messages # <<>>
  /\ Head(incoming_messages).kind = "Privmsg"
  /\ Head(incoming_messages).channel_login \in DOMAIN marble_states \ {last.channel}
  /\ ENABLED (process_message_quiet \/ process_message_play(MaxTime))

====
